---- MODULE Spec2Model ----
(***************************************************************************)
(* Balance account (balance_manager.py) and expense ledger (tracker.py) of *)
(* the personal-finance tracker.  The two persisted documents,             *)
(* balance.json and expenses.json, are the state; every operation is a     *)
(* whole-document read-modify-write.  Amounts are integers (exact          *)
(* arithmetic, e.g. a count of the smallest currency unit).                *)
(***************************************************************************)
EXTENDS Integers, Sequences, FiniteSets, TLC

\* ---------------------------------------------------------------- bounds
MaxLen == 2

MaxAmount == 2

MaxBalance == 3

MaxDay == 2

MaxGoals == 2

MaxTarget == 2

MaxBudgets == 2

\* ---------------------------------------------------------------- inputs
\* Amounts a caller may pass: the functions validate nothing about the sign.
AmountInputs == -1..MaxAmount

\* Stored balances the exploration follows.
BalanceRange == -1..MaxBalance

Categories == {"Groceries", "Rent"}

Notes == {"", "lunch"}

\* The replacement category and note an edit may pass.
EditCategories == {"Rent"}

EditNotes == {"lunch"}

GoalNames == {"trip"}

\* Names delete_goal may be called with; "1" is a numeric string.
DeleteNames == {"trip", "bike", "1"}

GoalIds == 0..(MaxGoals + 1)

\* Targets a caller passes: positive, as the goal dialog checks before add_goal.
TargetInputs == 1..MaxTarget

\* Progress values the exploration follows.
ProgressRange == -1..(MaxTarget + 1)

\* Python's None and a present optional argument.
None == <<>>

Some(v) == <<v>>

OptOf(S) == {None} \cup {Some(v) : v \in S}

VARIABLES
    balance_file,    \* balance.json: [exists, balance, last_updated]
    expenses_file,   \* expenses.json: [exists, records]
    today,           \* date.today()
    lastOp,          \* the call made last, with its arguments
    lastResult,      \* how it ended: [exc, val]
    pre,             \* both documents as they were before that call
    initial_balance, \* the balance the run started from
    goals_file,      \* goals.json: [exists, records]
    procs,           \* the calls in progress, one per concurrent caller
    budgets_file     \* budgets.json: [exists, records]

vars == <<balance_file, expenses_file, today, lastOp, lastResult, pre, initial_balance,
          goals_file, procs, budgets_file>>

\* ------------------------------------------------------ balance_manager.py
NoBalanceFile == [exists |-> FALSE, balance |-> 0, last_updated |-> 0]

load_balance(bf) == IF bf.exists THEN bf.balance ELSE 0

save_balance(balance, day) == [exists |-> TRUE, balance |-> balance, last_updated |-> day]

\* Variant: the sign of the new balance is not checked.
set_balance_unchecked(bf, balance, day) ==
    [file |-> save_balance(balance, day), exc |-> "none", val |-> None]

set_balance(bf, balance, day) ==
    IF balance < 0
    THEN [file |-> bf, exc |-> "ValueError", val |-> None]
    ELSE [file |-> save_balance(balance, day), exc |-> "none", val |-> None]

\* Variant: the credit is computed and returned but never saved.
add_to_balance_no_save(bf, amount, day) ==
    LET current_balance == load_balance(bf)
        new_balance == current_balance + amount
    IN  [file |-> bf, exc |-> "none", val |-> Some(new_balance)]

add_to_balance(bf, amount, day) ==
    LET current_balance == load_balance(bf)
        new_balance == current_balance + amount
    IN  [file |-> save_balance(new_balance, day), exc |-> "none", val |-> Some(new_balance)]

\* Variant: the debit without the overdraft check.
subtract_from_balance_unchecked(bf, amount, day) ==
    LET current_balance == load_balance(bf)
        new_balance == current_balance - amount
    IN  [file |-> save_balance(new_balance, day), exc |-> "none", val |-> Some(new_balance)]

subtract_from_balance(bf, amount, day) ==
    LET current_balance == load_balance(bf)
        new_balance == current_balance - amount
    IN  IF new_balance < 0
        THEN [file |-> bf, exc |-> "ValueError", val |-> None]
        ELSE [file |-> save_balance(new_balance, day), exc |-> "none", val |-> Some(new_balance)]

get_balance(bf) == load_balance(bf)

\* ------------------------------------------------------------- tracker.py
NoExpensesFile == [exists |-> FALSE, records |-> <<>>]

load_expenses(ef) == IF ef.exists THEN ef.records ELSE <<>>

save_expenses(expenses) == [exists |-> TRUE, records |-> expenses]

\* Variant: pop() without its index, which removes the last element.
PopLast(s, i) == SubSeq(s, 1, Len(s) - 1)

\* list.pop(i) with a 0-based index i
Pop(s, i) == [k \in 1..(Len(s) - 1) |-> IF k <= i THEN s[k] ELSE s[k + 1]]

RECURSIVE SumAmounts(_)
SumAmounts(s) == IF s = <<>> THEN 0 ELSE s[1].amount + SumAmounts(Tail(s))

\* A date string is modelled by its day number; 0 stands for a string that
\* "%Y-%m-%d" does not parse.  Records written by add_expense have every key;
\* a record of a ledger edited by hand may lack some.
BadDate == 0

strptime(date_string) ==
    IF date_string >= 1
    THEN [exc |-> "none", val |-> date_string]
    ELSE [exc |-> "ValueError", val |-> 0]

Has(record, key) == key \in DOMAIN record

\* sum(e["amount"] for e in expenses): a record without the key raises.
get_total_spent(ef) ==
    LET expenses == load_expenses(ef)
    IN  IF \E k \in 1..Len(expenses) : ~Has(expenses[k], "amount")
        THEN [exc |-> "KeyError", val |-> None]
        ELSE [exc |-> "none", val |-> Some(SumAmounts(expenses))]

\* The loop of get_expenses_by_date_range over the records from position k:
\* expense["date"] raises on a record without the key, a date that does not
\* parse is skipped.
RECURSIVE FilterByDate(_, _, _, _)
FilterByDate(expenses, k, start_date, end_date) ==
    IF k > Len(expenses) THEN [exc |-> "none", val |-> <<>>]
    ELSE IF ~Has(expenses[k], "date") THEN [exc |-> "KeyError", val |-> <<>>]
    ELSE LET expense_date == strptime(expenses[k].date)
             rest == FilterByDate(expenses, k + 1, start_date, end_date)
         IN  IF rest.exc # "none" THEN rest
             ELSE IF expense_date.exc = "none" /\ start_date <= expense_date.val
                     /\ expense_date.val <= end_date
                  THEN [exc |-> "none", val |-> <<expenses[k]>> \o rest.val]
                  ELSE rest

get_expenses_by_date_range(ef, start_date, end_date) ==
    LET r == FilterByDate(load_expenses(ef), 1, start_date, end_date)
    IN  IF r.exc # "none" THEN [exc |-> r.exc, val |-> None]
        ELSE [exc |-> "none", val |-> Some(r.val)]

MaxOf(S) == CHOOSE m \in S : \A x \in S : x <= m

MinOf(S) == CHOOSE m \in S : \A x \in S : m <= x

\* average_expense is total_spent / total_expenses of the same result.
get_expense_statistics(ef) ==
    LET expenses == load_expenses(ef)
        amounts == {expenses[k].amount : k \in 1..Len(expenses)}
    IN  IF expenses = <<>>
        THEN [exc |-> "none",
              val |-> Some([total_expenses |-> 0, total_spent |-> 0, max_expense |-> 0,
                            min_expense |-> 0, categories_count |-> 0])]
        ELSE IF \E k \in 1..Len(expenses) :
                    ~Has(expenses[k], "amount") \/ ~Has(expenses[k], "category")
        THEN [exc |-> "KeyError", val |-> None]
        ELSE [exc |-> "none",
              val |-> Some([total_expenses |-> Len(expenses),
                            total_spent |-> SumAmounts(expenses),
                            max_expense |-> MaxOf(amounts),
                            min_expense |-> MinOf(amounts),
                            categories_count |->
                                Cardinality({expenses[k].category : k \in 1..Len(expenses)})])]

\* Variant: the record is appended and saved before the deduction is tried.
add_expense_append_first(bf, ef, category, amount, note, deduct_from_balance, day) ==
    LET expenses == load_expenses(ef)
        expense == [date |-> day, category |-> category, amount |-> amount, note |-> note]
        saved == save_expenses(Append(expenses, expense))
        sub == subtract_from_balance(bf, amount, day)
    IN  IF deduct_from_balance /\ sub.exc = "ValueError"
        THEN [bal |-> bf, exp |-> saved, exc |-> "ValueError", val |-> None]
        ELSE [bal |-> IF deduct_from_balance THEN sub.file ELSE bf,
              exp |-> saved, exc |-> "none", val |-> None]

add_expense(bf, ef, category, amount, note, deduct_from_balance, day) ==
    LET expenses == load_expenses(ef)
        expense == [date |-> day, category |-> category, amount |-> amount, note |-> note]
        sub == subtract_from_balance(bf, amount, day)
    IN  IF deduct_from_balance /\ sub.exc = "ValueError"
        THEN [bal |-> bf, exp |-> ef, exc |-> "ValueError", val |-> None]
        ELSE [bal |-> IF deduct_from_balance THEN sub.file ELSE bf,
              exp |-> save_expenses(Append(expenses, expense)),
              exc |-> "none", val |-> None]

\* Variant: the record is removed without restoring its amount.
delete_expense_no_credit(bf, ef, expense_index, day) ==
    LET expenses == load_expenses(ef)
    IN  IF 0 <= expense_index /\ expense_index < Len(expenses)
        THEN [bal |-> bf,
              exp |-> save_expenses(Pop(expenses, expense_index)),
              exc |-> "none", val |-> Some(TRUE)]
        ELSE [bal |-> bf, exp |-> ef, exc |-> "none", val |-> Some(FALSE)]

\* Variant: the range test lacks its lower bound, so a negative index counts
\* from the end of the list as Python indexing does.
delete_expense_negative_index(bf, ef, expense_index, day) ==
    LET expenses == load_expenses(ef)
        at == IF expense_index < 0 THEN Len(expenses) + expense_index ELSE expense_index
    IN  IF expense_index < Len(expenses)
        THEN IF at < 0
             THEN [bal |-> bf, exp |-> ef, exc |-> "IndexError", val |-> None]
             ELSE [bal |-> add_to_balance(bf, expenses[at + 1].amount, day).file,
                   exp |-> save_expenses(Pop(expenses, at)),
                   exc |-> "none", val |-> Some(TRUE)]
        ELSE [bal |-> bf, exp |-> ef, exc |-> "none", val |-> Some(FALSE)]

delete_expense(bf, ef, expense_index, day) ==
    LET expenses == load_expenses(ef)
    IN  IF 0 <= expense_index /\ expense_index < Len(expenses)
        THEN LET deleted_expense == expenses[expense_index + 1]
                 amount == deleted_expense.amount
                 add == add_to_balance(bf, amount, day)
             IN  [bal |-> add.file,
                  exp |-> save_expenses(Pop(expenses, expense_index)),
                  exc |-> "none", val |-> Some(TRUE)]
        ELSE [bal |-> bf, exp |-> ef, exc |-> "none", val |-> Some(FALSE)]

\* Variant: the category and note are saved although the balance adjustment
\* failed.
edit_expense_partial(bf, ef, expense_index, category, amount, note, day) ==
    LET expenses == load_expenses(ef)
    IN  IF 0 <= expense_index /\ expense_index < Len(expenses)
        THEN LET current == expenses[expense_index + 1]
                 old_amount == current.amount
                 changing == amount # None /\ amount[1] # old_amount
                 adj == IF ~changing
                        THEN [file |-> bf, exc |-> "none", val |-> None]
                        ELSE IF amount[1] > old_amount
                             THEN subtract_from_balance(bf, amount[1] - old_amount, day)
                             ELSE add_to_balance(bf, old_amount - amount[1], day)
                 failed == adj.exc # "none"
                 edited == [date |-> current.date,
                            category |-> IF category # None THEN category[1] ELSE current.category,
                            amount |-> IF changing /\ ~failed THEN amount[1] ELSE old_amount,
                            note |-> IF note # None THEN note[1] ELSE current.note]
             IN  [bal |-> adj.file,
                  exp |-> save_expenses([expenses EXCEPT ![expense_index + 1] = edited]),
                  exc |-> IF failed THEN "RuntimeError" ELSE "none",
                  val |-> IF failed THEN None ELSE Some(TRUE)]
        ELSE [bal |-> bf, exp |-> ef, exc |-> "none", val |-> Some(FALSE)]

\* Variant: a larger amount debits the whole new amount, not the difference.
edit_expense_full_debit(bf, ef, expense_index, category, amount, note, day) ==
    LET expenses == load_expenses(ef)
    IN  IF 0 <= expense_index /\ expense_index < Len(expenses)
        THEN LET current == expenses[expense_index + 1]
                 old_amount == current.amount
                 changing == amount # None /\ amount[1] # old_amount
                 adj == IF ~changing
                        THEN [file |-> bf, exc |-> "none", val |-> None]
                        ELSE IF amount[1] > old_amount
                             THEN subtract_from_balance(bf, amount[1], day)
                             ELSE add_to_balance(bf, old_amount - amount[1], day)
                 edited == [date |-> current.date,
                            category |-> IF category # None THEN category[1] ELSE current.category,
                            amount |-> IF changing THEN amount[1] ELSE old_amount,
                            note |-> IF note # None THEN note[1] ELSE current.note]
             IN  IF adj.exc # "none"
                 THEN [bal |-> bf, exp |-> ef, exc |-> "RuntimeError", val |-> None]
                 ELSE [bal |-> adj.file,
                       exp |-> save_expenses([expenses EXCEPT ![expense_index + 1] = edited]),
                       exc |-> "none", val |-> Some(TRUE)]
        ELSE [bal |-> bf, exp |-> ef, exc |-> "none", val |-> Some(FALSE)]

\* Variant: a note that was not passed is stored as the empty default.
edit_expense_clear_note(bf, ef, expense_index, category, amount, note, day) ==
    LET expenses == load_expenses(ef)
    IN  IF 0 <= expense_index /\ expense_index < Len(expenses)
        THEN LET current == expenses[expense_index + 1]
                 old_amount == current.amount
                 changing == amount # None /\ amount[1] # old_amount
                 adj == IF ~changing
                        THEN [file |-> bf, exc |-> "none", val |-> None]
                        ELSE IF amount[1] > old_amount
                             THEN subtract_from_balance(bf, amount[1] - old_amount, day)
                             ELSE add_to_balance(bf, old_amount - amount[1], day)
                 edited == [date |-> current.date,
                            category |-> IF category # None THEN category[1] ELSE current.category,
                            amount |-> IF changing THEN amount[1] ELSE old_amount,
                            note |-> IF note # None THEN note[1] ELSE ""]
             IN  IF adj.exc # "none"
                 THEN [bal |-> bf, exp |-> ef, exc |-> "RuntimeError", val |-> None]
                 ELSE [bal |-> adj.file,
                       exp |-> save_expenses([expenses EXCEPT ![expense_index + 1] = edited]),
                       exc |-> "none", val |-> Some(TRUE)]
        ELSE [bal |-> bf, exp |-> ef, exc |-> "none", val |-> Some(FALSE)]

edit_expense(bf, ef, expense_index, category, amount, note, day) ==
    LET expenses == load_expenses(ef)
    IN  IF 0 <= expense_index /\ expense_index < Len(expenses)
        THEN LET current == expenses[expense_index + 1]
                 old_amount == current.amount
                 changing == amount # None /\ amount[1] # old_amount
                 adj == IF ~changing
                        THEN [file |-> bf, exc |-> "none", val |-> None]
                        ELSE IF amount[1] > old_amount
                             THEN subtract_from_balance(bf, amount[1] - old_amount, day)
                             ELSE add_to_balance(bf, old_amount - amount[1], day)
                 edited == [date |-> current.date,
                            category |-> IF category # None THEN category[1] ELSE current.category,
                            amount |-> IF changing THEN amount[1] ELSE old_amount,
                            note |-> IF note # None THEN note[1] ELSE current.note]
             IN  IF adj.exc # "none"
                 THEN [bal |-> bf, exp |-> ef, exc |-> "RuntimeError", val |-> None]
                 ELSE [bal |-> adj.file,
                       exp |-> save_expenses([expenses EXCEPT ![expense_index + 1] = edited]),
                       exc |-> "none", val |-> Some(TRUE)]
        ELSE [bal |-> bf, exp |-> ef, exc |-> "none", val |-> Some(FALSE)]

\* --------------------------------------------------------------- goals.py
NoGoalsFile == [exists |-> FALSE, records |-> <<>>]

load_goals(gf) == IF gf.exists THEN gf.records ELSE <<>>

save_goals(goals) == [exists |-> TRUE, records |-> goals]

\* The smallest member of a non-empty set of list positions: the first match
\* of a for loop over the list.
First(S) == CHOOSE k \in S : \A j \in S : k <= j

\* [g for g in goals if keep(g)], by the positions kept
RECURSIVE Filter(_, _)
Filter(s, keep) ==
    IF s = <<>> THEN <<>>
    ELSE IF keep[1] THEN <<s[1]>> \o Filter(Tail(s), Tail(keep))
         ELSE Filter(Tail(s), Tail(keep))

add_goal(gf, name, target_amount, deadline, lock_amount, day) ==
    LET goals == load_goals(gf)
        goal == [id |-> Len(goals) + 1,
                 name |-> name,
                 target_amount |-> target_amount,
                 current_amount |-> 0,
                 deadline |-> deadline,
                 created_date |-> day,
                 status |-> "active",
                 lock_amount |-> lock_amount,
                 completed_date |-> None,
                 cancelled_date |-> None]
    IN  [goals |-> save_goals(Append(goals, goal)), exc |-> "none", val |-> Some(goal)]

\* Variant: the progress is capped at the target.
update_goal_progress_capped(gf, goal_id, amount_to_add, day) ==
    LET goals == load_goals(gf)
        hits == {k \in 1..Len(goals) : goals[k].id = goal_id /\ goals[k].status = "active"}
    IN  IF hits = {}
        THEN [goals |-> gf, exc |-> "none", val |-> None]
        ELSE LET k == First(hits)
                 sum == goals[k].current_amount + amount_to_add
                 current == IF sum > goals[k].target_amount THEN goals[k].target_amount ELSE sum
                 goal == IF current >= goals[k].target_amount
                         THEN [goals[k] EXCEPT !.current_amount = current,
                                               !.status = "completed",
                                               !.completed_date = Some(day)]
                         ELSE [goals[k] EXCEPT !.current_amount = current]
             IN  [goals |-> save_goals([goals EXCEPT ![k] = goal]),
                  exc |-> "none", val |-> Some(goal)]

\* Variant: the lookup matches the id alone, whatever the goal's status.
update_goal_progress_any_status(gf, goal_id, amount_to_add, day) ==
    LET goals == load_goals(gf)
        hits == {k \in 1..Len(goals) : goals[k].id = goal_id}
    IN  IF hits = {}
        THEN [goals |-> gf, exc |-> "none", val |-> None]
        ELSE LET k == First(hits)
                 current == goals[k].current_amount + amount_to_add
                 goal == IF current >= goals[k].target_amount
                         THEN [goals[k] EXCEPT !.current_amount = current,
                                               !.status = "completed",
                                               !.completed_date = Some(day)]
                         ELSE [goals[k] EXCEPT !.current_amount = current]
             IN  [goals |-> save_goals([goals EXCEPT ![k] = goal]),
                  exc |-> "none", val |-> Some(goal)]

\* Variant: the goal completes only when the progress exceeds the target.
update_goal_progress_strict(gf, goal_id, amount_to_add, day) ==
    LET goals == load_goals(gf)
        hits == {k \in 1..Len(goals) : goals[k].id = goal_id /\ goals[k].status = "active"}
    IN  IF hits = {}
        THEN [goals |-> gf, exc |-> "none", val |-> None]
        ELSE LET k == First(hits)
                 current == goals[k].current_amount + amount_to_add
                 goal == IF current > goals[k].target_amount
                         THEN [goals[k] EXCEPT !.current_amount = current,
                                               !.status = "completed",
                                               !.completed_date = Some(day)]
                         ELSE [goals[k] EXCEPT !.current_amount = current]
             IN  [goals |-> save_goals([goals EXCEPT ![k] = goal]),
                  exc |-> "none", val |-> Some(goal)]

update_goal_progress(gf, goal_id, amount_to_add, day) ==
    LET goals == load_goals(gf)
        hits == {k \in 1..Len(goals) : goals[k].id = goal_id /\ goals[k].status = "active"}
    IN  IF hits = {}
        THEN [goals |-> gf, exc |-> "none", val |-> None]
        ELSE LET k == First(hits)
                 current == goals[k].current_amount + amount_to_add
                 goal == IF current >= goals[k].target_amount
                         THEN [goals[k] EXCEPT !.current_amount = current,
                                               !.status = "completed",
                                               !.completed_date = Some(day)]
                         ELSE [goals[k] EXCEPT !.current_amount = current]
             IN  [goals |-> save_goals([goals EXCEPT ![k] = goal]),
                  exc |-> "none", val |-> Some(goal)]

get_active_goals(gf) ==
    LET goals == load_goals(gf)
    IN  Filter(goals, [k \in 1..Len(goals) |-> goals[k].status = "active"])

cancel_goal(gf, goal_id, day) ==
    LET goals == load_goals(gf)
        hits == {k \in 1..Len(goals) : goals[k].id = goal_id}
    IN  IF hits = {}
        THEN [goals |-> gf, exc |-> "none", val |-> Some(FALSE)]
        ELSE LET k == First(hits)
                 goal == [goals[k] EXCEPT !.status = "cancelled",
                                          !.cancelled_date = Some(day)]
             IN  [goals |-> save_goals([goals EXCEPT ![k] = goal]),
                  exc |-> "none", val |-> Some(TRUE)]

\* The argument of delete_goal is an int or a str: [is_str, int, str].
IntArg(n) == [is_str |-> FALSE, int |-> n, str |-> ""]

StrArg(t) == [is_str |-> TRUE, int |-> 0, str |-> t]

\* str.isdigit() and int(str) on the strings the callers pass
DigitValue == [t \in {"1", "2", "3"} |-> IF t = "1" THEN 1 ELSE IF t = "2" THEN 2 ELSE 3]

isdigit(t) == t \in DOMAIN DigitValue

delete_goal(gf, goal_id) ==
    LET goals == load_goals(gf)
        initial_length == Len(goals)
        by_id == ~goal_id.is_str \/ isdigit(goal_id.str)
        id == IF goal_id.is_str THEN DigitValue[goal_id.str] ELSE goal_id.int
        kept == Filter(goals, [k \in 1..Len(goals) |->
                                 IF by_id THEN goals[k].id # id
                                 ELSE goals[k].name # goal_id.str])
    IN  IF Len(kept) < initial_length
        THEN [goals |-> save_goals(kept), exc |-> "none", val |-> Some(TRUE)]
        ELSE [goals |-> gf, exc |-> "none", val |-> Some(FALSE)]

Max(a, b) == IF a >= b THEN a ELSE b

RECURSIVE SumLocked(_)
SumLocked(s) ==
    IF s = <<>> THEN 0
    ELSE (IF s[1].lock_amount
          THEN Max(0, s[1].target_amount - s[1].current_amount)
          ELSE 0) + SumLocked(Tail(s))

\* Variant: the sum runs over every stored goal.
get_total_locked_amount_all_goals(gf) == SumLocked(load_goals(gf))

get_total_locked_amount(gf) == SumLocked(get_active_goals(gf))

get_available_balance_after_goals(gf, current_balance) ==
    LET locked == get_total_locked_amount(gf)
    IN  Max(0, current_balance - locked)

\* -------------------------------------------------------------- budgets.py
NoBudgetsFile == [exists |-> FALSE, records |-> <<>>]

load_budgets(bf) == IF bf.exists THEN bf.records ELSE <<>>

save_budgets(budgets) == [exists |-> TRUE, records |-> budgets]

\* timedelta(days=7) and timedelta(days=30)
WeekDays == 7

MonthDays == 30

DefaultAlertThreshold == 80

add_budget(bf, category, amount, period, alert_threshold, day) ==
    LET budgets == load_budgets(bf)
        end_date == IF period = "week" THEN day + WeekDays ELSE day + MonthDays
        budget == [id |-> Len(budgets) + 1,
                   category |-> category,
                   amount |-> amount,
                   period |-> period,
                   start_date |-> day,
                   end_date |-> end_date,
                   alert_threshold |-> alert_threshold,
                   status |-> "active",
                   created_date |-> day]
    IN  [budgets |-> save_budgets(Append(budgets, budget)), exc |-> "none",
         val |-> Some(budget)]

\* The budget is active and its end date parses.
Parsed(budget) ==
    budget.status = "active" /\ strptime(budget.end_date).exc = "none"

\* Every active budget whose end date has passed is marked expired, the list
\* is saved whether or not any was, and the others still active are returned.
get_active_budgets(bf, day) ==
    LET budgets == load_budgets(bf)
        keep == [k \in 1..Len(budgets) |->
                   Parsed(budgets[k]) /\ strptime(budgets[k].end_date).val >= day]
        marked == [k \in 1..Len(budgets) |->
                     IF Parsed(budgets[k]) /\ ~keep[k]
                     THEN [budgets[k] EXCEPT !.status = "expired"]
                     ELSE budgets[k]]
    IN  [budgets |-> save_budgets(marked), exc |-> "none",
         val |-> Some(Filter(budgets, keep))]

\* The loop of calculate_spending_for_budget over the records from position
\* k: expense["date"] raises on a record without the key, a date that does
\* not parse is skipped, a missing category matches no named category and a
\* missing amount counts as 0.
RECURSIVE SpendingFrom(_, _, _, _, _)
SpendingFrom(expenses, k, start_date, end_date, category) ==
    IF k > Len(expenses) THEN [exc |-> "none", val |-> 0]
    ELSE IF ~Has(expenses[k], "date") THEN [exc |-> "KeyError", val |-> 0]
    ELSE LET expense == expenses[k]
             expense_date == strptime(expense.date)
             rest == SpendingFrom(expenses, k + 1, start_date, end_date, category)
             counted == /\ expense_date.exc = "none"
                        /\ start_date <= expense_date.val
                        /\ expense_date.val <= end_date
                        /\ \/ category = "Overall"
                           \/ Has(expense, "category") /\ expense.category = category
         IN  IF rest.exc # "none" THEN rest
             ELSE IF counted
                  THEN [exc |-> "none",
                        val |-> (IF Has(expense, "amount") THEN expense.amount ELSE 0)
                                + rest.val]
                  ELSE rest

\* Variant: the window leaves out the end date.
calculate_spending_for_budget_open_end(ef, budget) ==
    LET start_date == strptime(budget.start_date)
        end_date == strptime(budget.end_date)
    IN  IF start_date.exc # "none" \/ end_date.exc # "none"
        THEN [exc |-> "none", val |-> Some(0)]
        ELSE LET r == SpendingFrom(load_expenses(ef), 1, start_date.val, end_date.val - 1,
                                   budget.category)
             IN  IF r.exc # "none" THEN [exc |-> r.exc, val |-> None]
                 ELSE [exc |-> "none", val |-> Some(r.val)]

calculate_spending_for_budget(ef, budget) ==
    LET start_date == strptime(budget.start_date)
        end_date == strptime(budget.end_date)
    IN  IF start_date.exc # "none" \/ end_date.exc # "none"
        THEN [exc |-> "none", val |-> Some(0)]
        ELSE LET r == SpendingFrom(load_expenses(ef), 1, start_date.val, end_date.val,
                                   budget.category)
             IN  IF r.exc # "none" THEN [exc |-> r.exc, val |-> None]
                 ELSE [exc |-> "none", val |-> Some(r.val)]

\* percentage = spent / amount * 100 is compared through products:
\* percentage >= t is spent * 100 >= t * amount when amount > 0, and
\* 0 >= t otherwise.
AtLeastPercent(spent, budget_amount, twice_threshold) ==
    IF budget_amount > 0
    THEN spent * 200 >= twice_threshold * budget_amount
    ELSE 0 >= twice_threshold

status_level(spent, budget_amount, alert_threshold) ==
    IF AtLeastPercent(spent, budget_amount, 200) THEN "exceeded"
    ELSE IF AtLeastPercent(spent, budget_amount, 2 * alert_threshold) THEN "warning"
    ELSE IF AtLeastPercent(spent, budget_amount, alert_threshold) THEN "caution"
    ELSE "safe"

get_budget_status(ef, budget) ==
    LET spent == calculate_spending_for_budget(ef, budget)
    IN  IF spent.exc # "none" THEN [exc |-> spent.exc, val |-> None]
        ELSE [exc |-> "none",
              val |-> Some([budget_id |-> budget.id,
                            spent |-> spent.val[1],
                            budget_amount |-> budget.amount,
                            remaining |-> Max(0, budget.amount - spent.val[1]),
                            status_level |-> status_level(spent.val[1], budget.amount,
                                                          budget.alert_threshold),
                            is_exceeded |-> AtLeastPercent(spent.val[1], budget.amount, 200)])]

\* The alerts of the budgets from position k of the active list.
RECURSIVE AlertsFrom(_, _, _)
AlertsFrom(ef, budgets, k) ==
    IF k > Len(budgets) THEN [exc |-> "none", val |-> <<>>]
    ELSE LET status == get_budget_status(ef, budgets[k])
             rest == AlertsFrom(ef, budgets, k + 1)
         IN  IF status.exc # "none" THEN [exc |-> status.exc, val |-> <<>>]
             ELSE IF rest.exc # "none" THEN rest
             ELSE LET level == status.val[1].status_level
                  IN  IF level \in {"warning", "exceeded"}
                      THEN [exc |-> "none",
                            val |-> <<[type |-> level, budget_id |-> budgets[k].id]>>
                                    \o rest.val]
                      ELSE rest

check_budget_alerts(bf, ef, day) ==
    LET active == get_active_budgets(bf, day)
        alerts == AlertsFrom(ef, active.val[1], 1)
    IN  [budgets |-> active.budgets, exc |-> alerts.exc,
         val |-> IF alerts.exc = "none" THEN Some(alerts.val) ELSE None]

\* for key, value in kwargs.items(): if key in budget: budget[key] = value
update_budget(bf, budget_id, kwargs) ==
    LET budgets == load_budgets(bf)
        hits == {k \in 1..Len(budgets) : budgets[k].id = budget_id}
    IN  IF hits = {}
        THEN [budgets |-> bf, exc |-> "none", val |-> Some(FALSE)]
        ELSE LET k == First(hits)
                 budget == [key \in DOMAIN budgets[k] |->
                              IF key \in DOMAIN kwargs THEN kwargs[key] ELSE budgets[k][key]]
             IN  [budgets |-> save_budgets([budgets EXCEPT ![k] = budget]),
                  exc |-> "none", val |-> Some(TRUE)]

delete_budget(bf, budget_id) ==
    LET budgets == load_budgets(bf)
        initial_length == Len(budgets)
        by_id == ~budget_id.is_str \/ isdigit(budget_id.str)
        id == IF budget_id.is_str THEN DigitValue[budget_id.str] ELSE budget_id.int
        kept == Filter(budgets, [k \in 1..Len(budgets) |->
                                   IF by_id THEN budgets[k].id # id
                                   ELSE budgets[k].category # budget_id.str])
    IN  IF Len(kept) < initial_length
        THEN [budgets |-> save_budgets(kept), exc |-> "none", val |-> Some(TRUE)]
        ELSE [budgets |-> bf, exc |-> "none", val |-> Some(FALSE)]

renew_budget(bf, budget_id, day) ==
    LET budgets == load_budgets(bf)
        hits == {k \in 1..Len(budgets) : budgets[k].id = budget_id}
    IN  IF hits = {}
        THEN [budgets |-> bf, exc |-> "none", val |-> None]
        ELSE LET budget == budgets[First(hits)]
             IN  add_budget(bf, budget.category, budget.amount, budget.period,
                            budget.alert_threshold, day)

RECURSIVE SummaryFrom(_, _, _)
SummaryFrom(ef, budgets, k) ==
    IF k > Len(budgets)
    THEN [exc |-> "none",
          val |-> [total_budgets |-> 0, safe_count |-> 0, warning_count |-> 0,
                   exceeded_count |-> 0, total_budget_amount |-> 0, total_spent |-> 0]]
    ELSE LET status == get_budget_status(ef, budgets[k])
             rest == SummaryFrom(ef, budgets, k + 1)
         IN  IF status.exc # "none" THEN [exc |-> status.exc, val |-> rest.val]
             ELSE IF rest.exc # "none" THEN rest
             ELSE LET level == status.val[1].status_level
                      one(b) == IF b THEN 1 ELSE 0
                  IN  [exc |-> "none",
                       val |-> [total_budgets |-> rest.val.total_budgets + 1,
                                safe_count |-> rest.val.safe_count + one(level = "safe"),
                                warning_count |-> rest.val.warning_count
                                                  + one(level \in {"warning", "caution"}),
                                exceeded_count |-> rest.val.exceeded_count
                                                   + one(level = "exceeded"),
                                total_budget_amount |-> rest.val.total_budget_amount
                                                        + budgets[k].amount,
                                total_spent |-> rest.val.total_spent + status.val[1].spent]]

\* overall_percentage is total_spent / total_budget_amount * 100 of the same
\* result.
get_budget_summary(bf, ef, day) ==
    LET active == get_active_budgets(bf, day)
        summary == SummaryFrom(ef, active.val[1], 1)
    IN  [budgets |-> active.budgets, exc |-> summary.exc,
         val |-> IF summary.exc = "none" THEN Some(summary.val) ELSE None]

\* ---------------------------------------------------------------- actions
\* ----------------------------------------------------- calls, step by step
\* The ledger operations as the statements they run: load_expenses, then
\* load_balance and save_balance inside subtract_from_balance or
\* add_to_balance, then save_expenses.  Each caller keeps what it loaded in
\* its own locals; nothing locks the documents between the steps.
Procs == {1, 2}

StepCategory == "Rent"

StepNote == ""

IdleProc ==
    [pc |-> "idle", op |-> "none", index |-> 0, amount |-> 0,
     expenses |-> <<>>, current_balance |-> 0,
     log |-> <<>>, exc |-> "none", val |-> None,
     stale_bal |-> FALSE, stale_exp |-> FALSE, raced |-> FALSE]

NoProcs == [p \in Procs |-> IdleProc]

\* A call that has returned: its locals are gone, what it wrote and how it
\* ended remain to be observed.
Returned(pr, exc, val) ==
    [IdleProc EXCEPT !.pc = "done", !.op = pr.op, !.log = pr.log,
                     !.exc = exc, !.val = val, !.raced = pr.raced]


Call(name, index, category, amount, note, deduct) ==
    [name |-> name, index |-> index, category |-> category, amount |-> amount,
     note |-> note, deduct |-> deduct]

NoCall == Call("none", 0, None, None, None, FALSE)

NoResult == [exc |-> "none", val |-> None]

\* No call is in progress: the previous one has returned to its caller.
Idle == lastOp = NoCall

Snapshot ==
    [bal |-> balance_file, exp |-> expenses_file, goals |-> goals_file,
     budgets |-> budgets_file]

\* The exploration keeps the stored balance and the ledger length in range.
InRange(bf, ef) ==
    /\ load_balance(bf) \in BalanceRange
    /\ Len(load_expenses(ef)) <= MaxLen

BalanceStep(name, amount, r) ==
    /\ Idle
    /\ InRange(r.file, expenses_file)
    /\ balance_file' = r.file
    /\ lastOp' = Call(name, 0, None, Some(amount), None, FALSE)
    /\ lastResult' = [exc |-> r.exc, val |-> r.val]
    /\ pre' = Snapshot
    /\ UNCHANGED <<expenses_file, today, initial_balance, goals_file, procs, budgets_file>>

LedgerStep(call, r) ==
    /\ Idle
    /\ InRange(r.bal, r.exp)
    /\ balance_file' = r.bal
    /\ expenses_file' = r.exp
    /\ lastOp' = call
    /\ lastResult' = [exc |-> r.exc, val |-> r.val]
    /\ pre' = Snapshot
    /\ UNCHANGED <<today, initial_balance, goals_file, procs, budgets_file>>

SetBalance ==
    \E amount \in AmountInputs \cup {MaxBalance} :
        BalanceStep("set_balance", amount, set_balance(balance_file, amount, today))

AddToBalance ==
    \E amount \in AmountInputs :
        BalanceStep("add_to_balance", amount, add_to_balance(balance_file, amount, today))

SubtractFromBalance ==
    \E amount \in AmountInputs :
        BalanceStep("subtract_from_balance", amount,
                    subtract_from_balance(balance_file, amount, today))

AddExpense(deduct) ==
    \E category \in Categories, amount \in AmountInputs, note \in Notes :
        LedgerStep(Call("add_expense", 0, Some(category), Some(amount), Some(note), deduct),
                   add_expense(balance_file, expenses_file, category, amount, note, deduct, today))

AddExpenseDeduct == AddExpense(TRUE)

AddExpenseNoDeduct == AddExpense(FALSE)

DeleteExpense ==
    \E expense_index \in -1..Len(load_expenses(expenses_file)) :
        LedgerStep(Call("delete_expense", expense_index, None, None, None, FALSE),
                   delete_expense(balance_file, expenses_file, expense_index, today))

EditExpense ==
    \E expense_index \in -1..Len(load_expenses(expenses_file)),
       category \in OptOf(EditCategories), amount \in OptOf(AmountInputs),
       note \in OptOf(EditNotes) :
        LedgerStep(Call("edit_expense", expense_index, category, amount, note, FALSE),
                   edit_expense(balance_file, expenses_file, expense_index,
                                category, amount, note, today))

\* The exploration keeps the number of goals and their progress in range.
GoalsInRange(gf) ==
    /\ Len(load_goals(gf)) <= MaxGoals
    /\ \A k \in 1..Len(load_goals(gf)) : load_goals(gf)[k].current_amount \in ProgressRange

\* Variant: a contribution is also debited from the balance document.
GoalStepDebiting(call, r) ==
    /\ Idle
    /\ GoalsInRange(r.goals)
    /\ goals_file' = r.goals
    /\ balance_file' = IF call.name = "update_goal_progress" /\ r.val # None
                       THEN save_balance(load_balance(balance_file) - call.amount[1], today)
                       ELSE balance_file
    /\ lastOp' = call
    /\ lastResult' = [exc |-> r.exc, val |-> r.val]
    /\ pre' = Snapshot
    /\ UNCHANGED <<expenses_file, today, initial_balance, procs, budgets_file>>

GoalStep(call, r) ==
    /\ Idle
    /\ GoalsInRange(r.goals)
    /\ goals_file' = r.goals
    /\ lastOp' = call
    /\ lastResult' = [exc |-> r.exc, val |-> r.val]
    /\ pre' = Snapshot
    /\ UNCHANGED <<balance_file, expenses_file, today, initial_balance, procs, budgets_file>>

AddGoal ==
    \E name \in GoalNames, target_amount \in TargetInputs, lock_amount \in BOOLEAN :
        GoalStep(Call("add_goal", 0, None, Some(target_amount), Some(name), lock_amount),
                 add_goal(goals_file, name, target_amount, None, lock_amount, today))

UpdateGoalProgress ==
    \E goal_id \in GoalIds, amount_to_add \in AmountInputs :
        GoalStep(Call("update_goal_progress", goal_id, None, Some(amount_to_add), None, FALSE),
                 update_goal_progress(goals_file, goal_id, amount_to_add, today))

CancelGoal ==
    \E goal_id \in GoalIds :
        GoalStep(Call("cancel_goal", goal_id, None, None, None, FALSE),
                 cancel_goal(goals_file, goal_id, today))

DeleteGoal ==
    \/ \E goal_id \in GoalIds :
            GoalStep(Call("delete_goal", goal_id, None, None, None, FALSE),
                     delete_goal(goals_file, IntArg(goal_id)))
    \/ \E name \in DeleteNames :
            GoalStep(Call("delete_goal", 0, None, None, Some(name), FALSE),
                     delete_goal(goals_file, StrArg(name)))

GetTotalLockedAmount ==
    GoalStep(Call("get_total_locked_amount", 0, None, None, None, FALSE),
             [goals |-> goals_file, exc |-> "none",
              val |-> Some(get_total_locked_amount(goals_file))])

GetAvailableBalanceAfterGoals ==
    LET current_balance == get_balance(balance_file)
    IN  GoalStep(Call("get_available_balance_after_goals", 0, None, Some(current_balance),
                      None, FALSE),
                 [goals |-> goals_file, exc |-> "none",
                  val |-> Some(get_available_balance_after_goals(goals_file, current_balance))])

\* ------------------------------------------------------- budget actions
BudgetCategories == {"Rent", "Overall"}

\* positive, as the budget dialog checks
BudgetAmounts == 1..MaxAmount

Periods == {"week", "month"}

BudgetIds == 0..(MaxBudgets + 1)

DeleteCategories == {"Rent", "Travel", "1"}

\* Keyword arguments of update_budget: a new amount, a new status, and a key
\* no budget has.
UpdateKwargs == {[amount |-> 1], [status |-> "active"], [colour |-> "red"]}

\* Variant: deleting a budget also empties the ledger.
BudgetStep_clears_ledger(call, r) ==
    /\ Idle
    /\ Len(load_budgets(r.budgets)) <= MaxBudgets
    /\ budgets_file' = r.budgets
    /\ expenses_file' = IF call.name = "delete_budget" /\ r.val = Some(TRUE)
                        THEN save_expenses(<<>>) ELSE expenses_file
    /\ lastOp' = call
    /\ lastResult' = [exc |-> r.exc, val |-> r.val]
    /\ pre' = Snapshot
    /\ UNCHANGED <<balance_file, today, initial_balance, goals_file, procs>>

BudgetStep(call, r) ==
    /\ Idle
    /\ Len(load_budgets(r.budgets)) <= MaxBudgets
    /\ budgets_file' = r.budgets
    /\ lastOp' = call
    /\ lastResult' = [exc |-> r.exc, val |-> r.val]
    /\ pre' = Snapshot
    /\ UNCHANGED <<balance_file, expenses_file, today, initial_balance, goals_file, procs>>

AddBudget ==
    \E category \in BudgetCategories, amount \in BudgetAmounts, period \in Periods :
        BudgetStep(Call("add_budget", 0, Some(category), Some(amount), Some(period), FALSE),
                   add_budget(budgets_file, category, amount, period,
                              DefaultAlertThreshold, today))

GetActiveBudgets ==
    BudgetStep(Call("get_active_budgets", 0, None, None, None, FALSE),
               get_active_budgets(budgets_file, today))

\* The caller passes one of the stored budgets.
CalculateSpendingForBudget ==
    \E k \in 1..Len(load_budgets(budgets_file)) :
        LET r == calculate_spending_for_budget(expenses_file, load_budgets(budgets_file)[k])
        IN  BudgetStep(Call("calculate_spending_for_budget", k, None, None, None, FALSE),
                       [budgets |-> budgets_file, exc |-> r.exc, val |-> r.val])

GetBudgetStatus ==
    \E k \in 1..Len(load_budgets(budgets_file)) :
        LET r == get_budget_status(expenses_file, load_budgets(budgets_file)[k])
        IN  BudgetStep(Call("get_budget_status", k, None, None, None, FALSE),
                       [budgets |-> budgets_file, exc |-> r.exc, val |-> r.val])

CheckBudgetAlerts ==
    BudgetStep(Call("check_budget_alerts", 0, None, None, None, FALSE),
               check_budget_alerts(budgets_file, expenses_file, today))

UpdateBudget ==
    \E budget_id \in BudgetIds, kwargs \in UpdateKwargs :
        BudgetStep(Call("update_budget", budget_id, None, None, Some(kwargs), FALSE),
                   update_budget(budgets_file, budget_id, kwargs))

DeleteBudget ==
    \/ \E budget_id \in BudgetIds :
            BudgetStep(Call("delete_budget", budget_id, None, None, None, FALSE),
                       delete_budget(budgets_file, IntArg(budget_id)))
    \/ \E category \in DeleteCategories :
            BudgetStep(Call("delete_budget", 0, Some(category), None, None, FALSE),
                       delete_budget(budgets_file, StrArg(category)))

RenewBudget ==
    \E budget_id \in BudgetIds :
        BudgetStep(Call("renew_budget", budget_id, None, None, None, FALSE),
                   renew_budget(budgets_file, budget_id, today))

GetBudgetSummary ==
    BudgetStep(Call("get_budget_summary", 0, None, None, None, FALSE),
               get_budget_summary(budgets_file, expenses_file, today))

\* The days on which calls are made: the day the first budget starts, the
\* end date of its week and the day after.
BudgetDays == {1, 1 + WeekDays, 2 + WeekDays}

\* The ledger calls made beside the budget calls: Rent or Groceries of
\* amount 1, a change of amount to MaxAmount, a deletion.
AddExpenseBudgeted ==
    \E category \in Categories :
        LedgerStep(Call("add_expense", 0, Some(category), Some(1), Some(""), TRUE),
                   add_expense(balance_file, expenses_file, category, 1, "", TRUE, today))

EditExpenseBudgeted ==
    \E expense_index \in 0..(Len(load_expenses(expenses_file)) - 1) :
        LedgerStep(Call("edit_expense", expense_index, None, Some(MaxAmount), None, FALSE),
                   edit_expense(balance_file, expenses_file, expense_index,
                                None, Some(MaxAmount), None, today))

DeleteExpenseBudgeted ==
    \E expense_index \in 0..(Len(load_expenses(expenses_file)) - 1) :
        LedgerStep(Call("delete_expense", expense_index, None, None, None, FALSE),
                   delete_expense(balance_file, expenses_file, expense_index, today))

TickBudget ==
    /\ Idle
    /\ \E day \in BudgetDays :
          /\ day > today
          /\ today' = day
    /\ UNCHANGED <<balance_file, expenses_file, lastOp, lastResult, pre, initial_balance,
                   goals_file, procs, budgets_file>>

\* --------------------------------------------------------- read actions
\* A call that only reads the ledger.
ReadStep(call, r) ==
    /\ Idle
    /\ lastOp' = call
    /\ lastResult' = [exc |-> r.exc, val |-> r.val]
    /\ pre' = Snapshot
    /\ UNCHANGED <<balance_file, expenses_file, today, initial_balance, goals_file, procs,
                   budgets_file>>

GetTotalSpent ==
    ReadStep(Call("get_total_spent", 0, None, None, None, FALSE),
             get_total_spent(expenses_file))

\* The window is [start_date, today].
GetExpensesByDateRange ==
    \E start_date \in 1..today :
        ReadStep(Call("get_expenses_by_date_range", start_date, None, None, None, FALSE),
                 get_expenses_by_date_range(expenses_file, start_date, today))

GetExpenseStatistics ==
    ReadStep(Call("get_expense_statistics", 0, None, None, None, FALSE),
             get_expense_statistics(expenses_file))

\* A ledger edited outside the program: a record may have a date that does
\* not parse, or lack its date or its amount.
WrittenRecords ==
    [date : {BadDate} \cup BudgetDays, category : Categories, amount : 1..MaxAmount,
     note : {""}]

Without(record, keys) == [key \in DOMAIN record \ keys |-> record[key]]

HandEditedRecords ==
    {Without(record, keys) : record \in WrittenRecords,
                             keys \in {{}, {"date"}, {"amount"}, {"date", "amount"}}}

HandEditedLedgers ==
    {<<>>} \cup {<<r>> : r \in HandEditedRecords}
           \cup {<<r1, r2>> : r1 \in HandEditedRecords, r2 \in HandEditedRecords}

\* The calendar day advances between calls.
Tick ==
    /\ Idle
    /\ today < MaxDay
    /\ today' = today + 1
    /\ UNCHANGED <<balance_file, expenses_file, lastOp, lastResult, pre, initial_balance,
                   goals_file, procs, budgets_file>>

\* The caller has taken the result; the next call starts from the documents
\* as they now are.
Return ==
    /\ ~Idle
    /\ lastOp' = NoCall
    /\ lastResult' = NoResult
    /\ pre' = Snapshot
    /\ UNCHANGED <<balance_file, expenses_file, today, initial_balance, goals_file, procs,
                   budgets_file>>

\* ---------------------------------------------------------- specifications
\* A fresh installation: neither document exists.
Init ==
    /\ balance_file = NoBalanceFile
    /\ expenses_file = NoExpensesFile
    /\ today = 1
    /\ lastOp = NoCall
    /\ lastResult = NoResult
    /\ goals_file = NoGoalsFile
    /\ procs = NoProcs
    /\ budgets_file = NoBudgetsFile
    /\ pre = Snapshot
    /\ initial_balance = 0

Next ==
    \/ SetBalance
    \/ AddToBalance
    \/ SubtractFromBalance
    \/ AddExpenseDeduct
    \/ AddExpenseNoDeduct
    \/ DeleteExpense
    \/ EditExpense
    \/ Tick
    \/ Return

Spec == Init /\ [][Next]_vars

\* The ledger operations alone, with deduction, from a balance B0 and an
\* empty ledger.
InitLedger ==
    /\ \E b0 \in 0..MaxBalance :
        /\ balance_file = save_balance(b0, 1)
        /\ initial_balance = b0
    /\ expenses_file = NoExpensesFile
    /\ today = 1
    /\ lastOp = NoCall
    /\ lastResult = NoResult
    /\ goals_file = NoGoalsFile
    /\ procs = NoProcs
    /\ budgets_file = NoBudgetsFile
    /\ pre = Snapshot

NextLedger ==
    \/ AddExpenseDeduct
    \/ DeleteExpense
    \/ EditExpense
    \/ Tick
    \/ Return

SpecLedger == InitLedger /\ [][NextLedger]_vars

\* The goal operations, beside a stored balance B0 and an empty ledger.
InitGoals ==
    /\ \E b0 \in 0..MaxBalance :
        /\ balance_file = save_balance(b0, 1)
        /\ initial_balance = b0
    /\ expenses_file = save_expenses(<<[date |-> 1, category |-> "Rent", amount |-> 1,
                                        note |-> ""]>>)
    /\ today = 1
    /\ lastOp = NoCall
    /\ lastResult = NoResult
    /\ goals_file = NoGoalsFile
    /\ procs = NoProcs
    /\ budgets_file = NoBudgetsFile
    /\ pre = Snapshot

NextGoals ==
    \/ AddGoal
    \/ UpdateGoalProgress
    \/ CancelGoal
    \/ DeleteGoal
    \/ GetTotalLockedAmount
    \/ GetAvailableBalanceAfterGoals
    \/ Return

SpecGoals == InitGoals /\ [][NextGoals]_vars

\* ------------------------------------------------------ steps of a call
InRangeIndex(expenses, expense_index) ==
    0 <= expense_index /\ expense_index < Len(expenses)

\* The first statement of each operation, expenses = load_expenses(), and the
\* tests that follow it up to the first access to the balance.
StartCall(p, op, expense_index, amount) ==
    /\ procs[p].pc \in {"idle", "done"}
    /\ LET expenses == load_expenses(expenses_file)
           hit == InRangeIndex(expenses, expense_index)
           next == IF op = "add_expense" THEN "load_balance"
                   ELSE IF ~hit THEN "done"
                   ELSE IF op = "delete_expense" THEN "load_balance"
                   ELSE IF amount # expenses[expense_index + 1].amount THEN "load_balance"
                   ELSE "save_expenses"
           started == [IdleProc EXCEPT !.pc = next, !.op = op, !.index = expense_index,
                                       !.amount = amount, !.expenses = expenses,
                                       !.raced = procs[p].raced]
       IN  procs' = [procs EXCEPT ![p] = IF next = "done"
                                         THEN Returned(started, "none", Some(FALSE))
                                         ELSE started]
    /\ UNCHANGED <<balance_file, expenses_file, today, lastOp, lastResult, pre,
                   initial_balance, goals_file, budgets_file>>

StartAddExpense(p, amounts) ==
    \E amount \in amounts : StartCall(p, "add_expense", 0, amount)

StartDeleteExpense(p) ==
    \E expense_index \in -1..Len(load_expenses(expenses_file)) :
        StartCall(p, "delete_expense", expense_index, 0)

StartEditExpense(p, amounts) ==
    \E expense_index \in -1..Len(load_expenses(expenses_file)), amount \in amounts :
        StartCall(p, "edit_expense", expense_index, amount)

\* Variant: every operation lets the inner exception pass.
Raised_unwrapped(pr, inner) == inner

\* How the operation reports a failed balance step: add_expense re-raises a
\* ValueError and lets any other exception pass; delete_expense and
\* edit_expense wrap every exception in a RuntimeError.
Raised(pr, inner) ==
    IF pr.op \in {"delete_expense", "edit_expense"} THEN "RuntimeError" ELSE inner

\* The calls of balance_manager made on their own, not from a ledger
\* operation: they return new_balance once the balance is saved.
BalanceOps == {"add_to_balance", "subtract_from_balance"}

StartBalanceCall(p, op, amounts) ==
    /\ procs[p].pc \in {"idle", "done"}
    /\ \E amount \in amounts :
          procs' = [procs EXCEPT ![p] = [IdleProc EXCEPT !.pc = "load_balance", !.op = op,
                                                         !.amount = amount,
                                                         !.raced = procs[p].raced]]
    /\ UNCHANGED <<balance_file, expenses_file, today, lastOp, lastResult, pre,
                   initial_balance, goals_file, budgets_file>>

StartAddToBalance(p, amounts) == StartBalanceCall(p, "add_to_balance", amounts)

StartSubtractFromBalance(p, amounts) == StartBalanceCall(p, "subtract_from_balance", amounts)

\* current_balance = load_balance(), which passes on every failure to read
\* the document but a missing file.
LoadBalance(p) ==
    /\ procs[p].pc = "load_balance"
    /\ \/ procs' = [procs EXCEPT ![p].pc = "save_balance",
                                 ![p].current_balance = load_balance(balance_file),
                                 ![p].stale_bal = FALSE]
       \/ procs' = [procs EXCEPT ![p] = Returned(procs[p], Raised(procs[p], "OSError"), None)]
    /\ UNCHANGED <<balance_file, expenses_file, today, lastOp, lastResult, pre,
                   initial_balance, goals_file, budgets_file>>

\* Variant: delete_expense gives nothing back.
Debit_delete_no_credit(pr) ==
    IF pr.op \in {"add_expense", "subtract_from_balance"} THEN pr.amount
    ELSE IF pr.op = "add_to_balance" THEN 0 - pr.amount
    ELSE IF pr.op = "delete_expense" THEN 0
    ELSE pr.amount - pr.expenses[pr.index + 1].amount

\* The amount the call takes from the balance (negative: gives back).
Debit(pr) ==
    IF pr.op \in {"add_expense", "subtract_from_balance"} THEN pr.amount
    ELSE IF pr.op = "add_to_balance" THEN 0 - pr.amount
    ELSE IF pr.op = "delete_expense" THEN 0 - pr.expenses[pr.index + 1].amount
    ELSE pr.amount - pr.expenses[pr.index + 1].amount

\* Variant: no call tests the new balance.
Checked_never(pr) == FALSE

\* subtract_from_balance tests the new balance; add_to_balance does not.
\* delete_expense always credits; edit_expense debits a larger amount.
Checked(pr) ==
    \/ pr.op \in {"add_expense", "subtract_from_balance"}
    \/ pr.op = "edit_expense" /\ pr.amount > pr.expenses[pr.index + 1].amount

\* Variant: a refused debit does not end the call.
SaveBalance_goes_on(p) ==
    /\ procs[p].pc = "save_balance"
    /\ LET pr == procs[p]
           new_balance == pr.current_balance - Debit(pr)
       IN  \/ /\ Checked(pr) /\ new_balance < 0
              /\ procs' = [procs EXCEPT ![p].pc = "save_expenses"]
              /\ UNCHANGED balance_file
           \/ /\ ~(Checked(pr) /\ new_balance < 0)
              /\ procs' = [procs EXCEPT ![p] = Returned(pr, Raised(pr, "OSError"), None)]
              /\ UNCHANGED balance_file
           \/ /\ ~(Checked(pr) /\ new_balance < 0)
              /\ new_balance \in BalanceRange
              /\ balance_file' = save_balance(new_balance, today)
              /\ procs' = [q \in Procs |->
                             IF q = p
                             THEN LET saved == [pr EXCEPT !.pc = "save_expenses",
                                                          !.log = Append(pr.log, "balance"),
                                                          !.raced = pr.raced \/ pr.stale_bal]
                                  IN  IF pr.op \in BalanceOps
                                      THEN Returned(saved, "none", Some(new_balance))
                                      ELSE saved
                             ELSE IF procs[q].pc = "save_balance"
                                  THEN [procs[q] EXCEPT !.stale_bal = TRUE]
                                  ELSE procs[q]]
    /\ UNCHANGED <<expenses_file, today, lastOp, lastResult, pre, initial_balance, goals_file,
                   budgets_file>>

\* The rest of subtract_from_balance or add_to_balance: the test, then
\* save_balance, which may fail to open the document.
SaveBalance(p) ==
    /\ procs[p].pc = "save_balance"
    /\ LET pr == procs[p]
           new_balance == pr.current_balance - Debit(pr)
       IN  \/ /\ Checked(pr) /\ new_balance < 0
              /\ procs' = [procs EXCEPT ![p] = Returned(pr, Raised(pr, "ValueError"), None)]
              /\ UNCHANGED balance_file
           \/ /\ ~(Checked(pr) /\ new_balance < 0)
              /\ procs' = [procs EXCEPT ![p] = Returned(pr, Raised(pr, "OSError"), None)]
              /\ UNCHANGED balance_file
           \/ /\ ~(Checked(pr) /\ new_balance < 0)
              /\ new_balance \in BalanceRange
              /\ balance_file' = save_balance(new_balance, today)
              /\ procs' = [q \in Procs |->
                             IF q = p
                             THEN LET saved == [pr EXCEPT !.pc = "save_expenses",
                                                          !.log = Append(pr.log, "balance"),
                                                          !.raced = pr.raced \/ pr.stale_bal]
                                  IN  IF pr.op \in BalanceOps
                                      THEN Returned(saved, "none", Some(new_balance))
                                      ELSE saved
                             ELSE IF procs[q].pc = "save_balance"
                                  THEN [procs[q] EXCEPT !.stale_bal = TRUE]
                                  ELSE procs[q]]
    /\ UNCHANGED <<expenses_file, today, lastOp, lastResult, pre, initial_balance, goals_file,
                   budgets_file>>

\* The list the call saves, made from the list it loaded.
Updated(pr, day) ==
    IF pr.op = "add_expense"
    THEN Append(pr.expenses, [date |-> day, category |-> StepCategory,
                              amount |-> pr.amount, note |-> StepNote])
    ELSE IF pr.op = "delete_expense" THEN Pop(pr.expenses, pr.index)
    ELSE [pr.expenses EXCEPT ![pr.index + 1].amount = pr.amount]

\* save_expenses(expenses) and the return
SaveExpenses(p) ==
    /\ procs[p].pc = "save_expenses"
    /\ LET pr == procs[p]
           expenses == Updated(pr, today)
       IN  /\ Len(expenses) <= MaxLen
           /\ expenses_file' = save_expenses(expenses)
           /\ procs' = [q \in Procs |->
                          IF q = p
                          THEN Returned([pr EXCEPT !.log = Append(pr.log, "ledger"),
                                                   !.raced = pr.raced \/ pr.stale_exp],
                                        "none",
                                        IF pr.op = "add_expense" THEN None ELSE Some(TRUE))
                          ELSE IF procs[q].pc \in {"load_balance", "save_balance", "save_expenses"}
                               THEN [procs[q] EXCEPT !.stale_exp = TRUE]
                               ELSE procs[q]]
    /\ UNCHANGED <<balance_file, today, lastOp, lastResult, pre, initial_balance, goals_file,
                   budgets_file>>

\* No call is between its first and its last statement.
Quiescent == \A p \in Procs : procs[p].pc \in {"idle", "done"}

Step(p, amounts) ==
    \/ StartAddExpense(p, amounts)
    \/ StartDeleteExpense(p)
    \/ StartEditExpense(p, amounts)
    \/ LoadBalance(p)
    \/ SaveBalance(p)
    \/ SaveExpenses(p)

\* One caller, its calls one after another.
NextSteps == Step(1, AmountInputs)

SpecSteps == InitLedger /\ [][NextSteps]_vars

\* Two callers against the same documents, their steps interleaved; both
\* pass amounts the dialogs accept.
RaceAmounts == 1..MaxAmount

\* A stored balance of MaxBalance and an empty ledger.
InitRace ==
    /\ balance_file = save_balance(MaxBalance, 1)
    /\ initial_balance = MaxBalance
    /\ expenses_file = NoExpensesFile
    /\ today = 1
    /\ lastOp = NoCall
    /\ lastResult = NoResult
    /\ goals_file = NoGoalsFile
    /\ procs = NoProcs
    /\ budgets_file = NoBudgetsFile
    /\ pre = Snapshot

NextRace == \E p \in Procs : Step(p, RaceAmounts)

SpecRace == InitRace /\ [][NextRace]_vars

\* The budget operations, beside a ledger that grows, over the days of a
\* budget week, from a stored balance of MaxBalance.
NextBudgets ==
    \/ AddBudget
    \/ GetActiveBudgets
    \/ CalculateSpendingForBudget
    \/ GetBudgetStatus
    \/ CheckBudgetAlerts
    \/ UpdateBudget
    \/ DeleteBudget
    \/ RenewBudget
    \/ GetBudgetSummary
    \/ AddExpenseBudgeted
    \/ TickBudget
    \/ Return

SpecBudgets == InitRace /\ [][NextBudgets]_vars

\* The spending of a budget, recomputed while the ledger is added to, edited
\* and deleted from.
NextSpending ==
    \/ AddBudget
    \/ CalculateSpendingForBudget
    \/ AddExpenseBudgeted
    \/ EditExpenseBudgeted
    \/ DeleteExpenseBudgeted
    \/ TickBudget
    \/ Return

SpecSpending == InitRace /\ [][NextSpending]_vars

\* The reads of the ledger, over a ledger that may have been edited by hand,
\* with a weekly Rent budget and a monthly Overall budget stored.
InitReads ==
    /\ balance_file = save_balance(MaxBalance, 1)
    /\ initial_balance = MaxBalance
    /\ \E ledger \in HandEditedLedgers : expenses_file = save_expenses(ledger)
    /\ today \in BudgetDays
    /\ lastOp = NoCall
    /\ lastResult = NoResult
    /\ goals_file = NoGoalsFile
    /\ procs = NoProcs
    /\ budgets_file =
          add_budget(add_budget(NoBudgetsFile, "Rent", MaxAmount, "week",
                                DefaultAlertThreshold, 1).budgets,
                     "Overall", MaxAmount, "month", DefaultAlertThreshold, 1).budgets
    /\ pre = Snapshot

NextReads ==
    \/ GetTotalSpent
    \/ GetExpensesByDateRange
    \/ GetExpenseStatistics
    \/ CalculateSpendingForBudget
    \/ Return

SpecReads == InitReads /\ [][NextReads]_vars

\* Two callers of add_to_balance and subtract_from_balance, their load and
\* save steps interleaved, from a balance B0 >= 0; the amounts are positive.
NextRaceBalance ==
    \E p \in Procs :
        \/ StartAddToBalance(p, RaceAmounts)
        \/ StartSubtractFromBalance(p, RaceAmounts)
        \/ LoadBalance(p)
        \/ SaveBalance(p)

SpecRaceBalance == InitLedger /\ [][NextRaceBalance]_vars

\* ------------------------------------------------------------ observations
Balance == get_balance(balance_file)

Ledger == load_expenses(expenses_file)

PreBalance == get_balance(pre.bal)

PreLedger == load_expenses(pre.exp)

Goals == load_goals(goals_file)

Budgets == load_budgets(budgets_file)

PreBudgets == load_budgets(pre.budgets)

PreGoals == load_goals(pre.goals)

\* ------------------------------------------------------------------ claims
\* C1: after every add_expense (with deduction), delete_expense and
\* edit_expense call from a balance B0 and an empty ledger, the stored balance
\* equals B0 minus the sum of the amounts of the records now in the ledger.
C1_BalanceMatchesLedger == Balance = initial_balance - SumAmounts(Ledger)

C1_Witness ==
    /\ lastOp.name = "delete_expense"
    /\ lastResult.val = Some(TRUE)
    /\ Len(PreLedger) = 2
    /\ SumAmounts(Ledger) > 0
    /\ Balance < initial_balance

\* C2: the stored balance is never negative, whatever sequence of balance and
\* ledger calls is made from a non-negative balance.
C2_BalanceNonNegative == Balance >= 0

\* C3: subtract_from_balance(amount) signals the insufficient-funds error and
\* leaves the stored balance alone when amount exceeds the current balance;
\* otherwise it stores and returns current - amount, which is not negative.
C3_SubtractNeverOverdraws ==
    lastOp.name = "subtract_from_balance" =>
        LET amount == lastOp.amount[1]
        IN  IF amount > PreBalance
            THEN /\ lastResult.exc = "ValueError"
                 /\ balance_file = pre.bal
            ELSE /\ lastResult.exc = "none"
                 /\ lastResult.val = Some(PreBalance - amount)
                 /\ Balance = PreBalance - amount
                 /\ Balance >= 0

C3_Witness ==
    /\ lastOp.name = "subtract_from_balance"
    /\ PreBalance > 0
    /\ lastOp.amount[1] > PreBalance
    /\ lastResult.exc = "ValueError"

\* C4: add_expense with an amount <= 0 fails with the invalid-amount error and
\* leaves the balance and the ledger unchanged, with or without deduction.
C4_NonPositiveAmountRejected ==
    (lastOp.name = "add_expense" /\ lastOp.amount[1] <= 0) =>
        /\ lastResult.exc = "ValueError"
        /\ balance_file = pre.bal
        /\ expenses_file = pre.exp

\* C5: add_expense with deduction and an amount above the current balance
\* fails and changes neither document; a successful add_expense appends
\* exactly the record {today, category, amount, note} at the end of the ledger
\* and leaves the earlier records as they were.
C5_AddAtomic ==
    lastOp.name = "add_expense" =>
        /\ (lastOp.deduct /\ lastOp.amount[1] > PreBalance) =>
                /\ lastResult.exc # "none"
                /\ balance_file = pre.bal
                /\ expenses_file = pre.exp
        /\ lastResult.exc = "none" =>
                Ledger = Append(PreLedger, [date |-> today,
                                            category |-> lastOp.category[1],
                                            amount |-> lastOp.amount[1],
                                            note |-> lastOp.note[1]])

C5_Witness ==
    /\ lastOp.name = "add_expense"
    /\ lastOp.deduct
    /\ lastOp.amount[1] > PreBalance
    /\ PreBalance > 0
    /\ Len(PreLedger) = 1

\* The edit named by lastOp asked for a larger amount than the balance covers.
EditOverdraws ==
    /\ lastOp.name = "edit_expense"
    /\ 0 <= lastOp.index
    /\ lastOp.index < Len(PreLedger)
    /\ lastOp.amount # None
    /\ lastOp.amount[1] > PreLedger[lastOp.index + 1].amount
    /\ lastOp.amount[1] - PreLedger[lastOp.index + 1].amount > PreBalance

\* C6: an edit_expense whose new amount exceeds the old one by more than the
\* current balance fails, and the record keeps its old amount, category and
\* note and the balance is unchanged, also when a category or note was passed.
C6_EditNoPartialUpdate ==
    EditOverdraws =>
        /\ lastResult.exc # "none"
        /\ balance_file = pre.bal
        /\ expenses_file = pre.exp

C6_Witness ==
    /\ EditOverdraws
    /\ lastOp.category # None
    /\ lastOp.note # None
    /\ lastOp.category[1] # PreLedger[lastOp.index + 1].category
    /\ lastOp.note[1] # PreLedger[lastOp.index + 1].note
    /\ PreBalance > 0

\* C7: delete_expense with an index outside 0..len-1, negative ones included,
\* returns false and changes neither the balance nor the ledger.
C7_DeleteOutOfRange ==
    (/\ lastOp.name = "delete_expense"
     /\ (lastOp.index < 0 \/ lastOp.index >= Len(PreLedger))) =>
        /\ lastResult.exc = "none"
        /\ lastResult.val = Some(FALSE)
        /\ balance_file = pre.bal
        /\ expenses_file = pre.exp

C7_Witness ==
    /\ lastOp.name = "delete_expense"
    /\ lastOp.index < 0
    /\ Len(PreLedger) = 2
    /\ lastResult.val = Some(FALSE)

\* C8: a successful delete_expense(i) raises the balance by the amount of
\* record i, removes that record only, keeps the records below i and moves
\* each record above i down by one index, content unchanged.
C8_DeleteEffect ==
    (lastOp.name = "delete_expense" /\ lastResult.val = Some(TRUE)) =>
        LET i == lastOp.index
        IN  /\ Balance = PreBalance + PreLedger[i + 1].amount
            /\ Len(Ledger) = Len(PreLedger) - 1
            /\ \A j \in 0..(Len(Ledger) - 1) :
                  Ledger[j + 1] = IF j < i THEN PreLedger[j + 1] ELSE PreLedger[j + 2]

C8_Witness ==
    /\ lastOp.name = "delete_expense"
    /\ lastResult.val = Some(TRUE)
    /\ lastOp.index = 0
    /\ Len(PreLedger) = 2
    /\ PreLedger[1] # PreLedger[2]
    /\ PreLedger[1].amount > 0

\* C9: once add_expense with deduction has succeeded, delete_expense of the
\* last index succeeds and brings the balance and the ledger back to what
\* they were before the add.
C9_AddDeleteRoundTrip ==
    (lastOp.name = "add_expense" /\ lastOp.deduct /\ lastResult.exc = "none") =>
        LET r == delete_expense(balance_file, expenses_file, Len(Ledger) - 1, today)
        IN  /\ r.val = Some(TRUE)
            /\ get_balance(r.bal) = PreBalance
            /\ load_expenses(r.exp) = PreLedger

C9_Witness ==
    /\ lastOp.name = "add_expense"
    /\ lastOp.deduct
    /\ lastResult.exc = "none"
    /\ lastOp.amount[1] > 0
    /\ Len(PreLedger) = 1
    /\ Balance < PreBalance

\* The edit named by lastOp succeeded and changed the amount of its record.
EditChangedAmount ==
    /\ lastOp.name = "edit_expense"
    /\ lastResult.val = Some(TRUE)
    /\ lastOp.amount # None
    /\ lastOp.amount[1] # PreLedger[lastOp.index + 1].amount

\* C10: a successful edit_expense to an amount new different from the stored
\* amount old changes the balance by exactly old - new, sets the record's
\* amount to new and changes no other record.
C10_EditAmountEffect ==
    EditChangedAmount =>
        LET i == lastOp.index
            old == PreLedger[i + 1].amount
            new == lastOp.amount[1]
        IN  /\ Balance = PreBalance + old - new
            /\ Len(Ledger) = Len(PreLedger)
            /\ Ledger[i + 1].amount = new
            /\ \A j \in 0..(Len(Ledger) - 1) : j # i => Ledger[j + 1] = PreLedger[j + 1]

C10_Witness ==
    /\ EditChangedAmount
    /\ lastOp.amount[1] > PreLedger[lastOp.index + 1].amount
    /\ PreLedger[lastOp.index + 1].amount > 0
    /\ Len(PreLedger) = 2
    /\ lastOp.index = 0

\* The edit named by lastOp hit a record and asked for no change of amount.
EditKeepsAmount ==
    /\ lastOp.name = "edit_expense"
    /\ 0 <= lastOp.index
    /\ lastOp.index < Len(PreLedger)
    /\ (lastOp.amount = None \/ lastOp.amount[1] = PreLedger[lastOp.index + 1].amount)

\* C11: an edit_expense on a valid index that passes no amount, or the stored
\* amount, returns true, writes no balance, and changes nothing in the ledger
\* but the category and the note that were passed.
C11_EditWithoutAmountChange ==
    EditKeepsAmount =>
        LET i == lastOp.index
            old == PreLedger[i + 1]
            new == [date |-> old.date,
                    category |-> IF lastOp.category # None THEN lastOp.category[1]
                                 ELSE old.category,
                    amount |-> old.amount,
                    note |-> IF lastOp.note # None THEN lastOp.note[1] ELSE old.note]
        IN  /\ lastResult.exc = "none"
            /\ lastResult.val = Some(TRUE)
            /\ balance_file = pre.bal
            /\ Ledger = [PreLedger EXCEPT ![i + 1] = new]

C11_Witness ==
    /\ EditKeepsAmount
    /\ lastOp.amount # None
    /\ lastOp.category # None
    /\ lastOp.category[1] # PreLedger[lastOp.index + 1].category
    /\ lastOp.note = None
    /\ PreLedger[lastOp.index + 1].note # ""
    /\ Len(PreLedger) = 2

\* C12: on every path of add_expense with deduction, delete_expense and
\* edit_expense with an amount change, the balance is written strictly before
\* the ledger, and the ledger is not written at all when the balance step
\* fails: until the balance is saved the call has written nothing, a call
\* about to save the ledger has written the balance and only it, a call that
\* raised has written nothing, and no call writes the ledger first and the
\* balance after it.
C12_BalanceBeforeLedger ==
    \A p \in Procs :
        LET pr == procs[p]
            changes == \/ pr.op \in {"add_expense", "delete_expense"}
                       \/ pr.op = "edit_expense"
                          /\ pr.amount # pr.expenses[pr.index + 1].amount
        IN  /\ pr.pc \in {"load_balance", "save_balance"} => pr.log = <<>>
            /\ (pr.pc = "save_expenses" /\ changes) => pr.log = <<"balance">>
            /\ (pr.pc = "done" /\ pr.exc # "none") => pr.log = <<>>
            /\ (pr.pc = "done" /\ pr.exc = "none" /\ pr.val # Some(FALSE)
                  /\ pr.op \in {"add_expense", "delete_expense"})
               => pr.log = <<"balance", "ledger">>
            /\ pr.log \in {<<>>, <<"balance">>, <<"ledger">>, <<"balance", "ledger">>}

C12_Witness ==
    /\ procs[1].pc = "done"
    /\ procs[1].op = "edit_expense"
    /\ procs[1].log = <<"balance", "ledger">>

\* C13: when the credit inside delete_expense fails, at the load or at the
\* save of the balance, the call ends there with a RuntimeError and no return
\* value, having written nothing: the ledger document is the one the call
\* loaded, the record still at its index.
C13_DeleteCreditFailure ==
    [][(/\ procs[1].op = "delete_expense"
        /\ procs[1].pc \in {"load_balance", "save_balance"}
        /\ procs'[1].pc = "done")
       => /\ procs'[1].exc = "RuntimeError"
          /\ procs'[1].val = None
          /\ procs'[1].log = <<>>
          /\ expenses_file' = expenses_file
          /\ balance_file' = balance_file
          /\ load_expenses(expenses_file') = procs[1].expenses
          /\ InRangeIndex(load_expenses(expenses_file'), procs[1].index)]_vars

C13_Witness ==
    /\ procs[1].pc = "done"
    /\ procs[1].op = "delete_expense"
    /\ procs[1].exc = "RuntimeError"
    /\ Len(Ledger) > 0

\* C14: set_balance fails for an amount < 0 and leaves the stored balance
\* alone; for an amount >= 0 it overwrites the stored balance, whatever it
\* was, so that get_balance returns the amount.  get_balance returns 0 while
\* no balance document exists.
C14_SetBalance ==
    /\ lastOp.name = "set_balance" =>
            IF lastOp.amount[1] < 0
            THEN /\ lastResult.exc = "ValueError"
                 /\ balance_file = pre.bal
            ELSE /\ lastResult.exc = "none"
                 /\ get_balance(balance_file) = lastOp.amount[1]
    /\ ~balance_file.exists => get_balance(balance_file) = 0

C14_Witness ==
    /\ lastOp.name = "set_balance"
    /\ lastOp.amount[1] < 0
    /\ lastResult.exc = "ValueError"
    /\ PreBalance > 0

\* The positions update_goal_progress may pick: the active goals with the id.
UpdateHits ==
    {k \in 1..Len(PreGoals) : PreGoals[k].id = lastOp.index /\ PreGoals[k].status = "active"}

\* C15: with two callers' load and save steps interleaved and no lock, a lost
\* update is reachable, and it is what breaks the balance equation: when no
\* call is in progress, the balance differs from the initial balance less the
\* ledger's amounts only if some call saved a document that another call had
\* saved since the first one loaded it.
C15_LostUpdate ==
    (Quiescent /\ Balance # initial_balance - SumAmounts(Ledger))
        => \E p \in Procs : procs[p].raced

C15_Witness ==
    /\ \A p \in Procs : /\ procs[p].pc = "done"
                        /\ procs[p].op = "add_expense"
                        /\ procs[p].log = <<"balance", "ledger">>
    /\ Len(Ledger) = 1
    /\ Balance # initial_balance - SumAmounts(Ledger)

\* C16: update_goal_progress on an active goal sets current_amount to exactly
\* current_amount + amount, with no cap at the target, and the status to
\* completed when that sum reaches target_amount; below it the status stays
\* active.
C16_ContributionCrossingTarget ==
    (lastOp.name = "update_goal_progress" /\ UpdateHits # {}) =>
        LET k == First(UpdateHits)
            sum == PreGoals[k].current_amount + lastOp.amount[1]
        IN  /\ Goals[k].current_amount = sum
            /\ Goals[k].status = IF sum >= PreGoals[k].target_amount
                                 THEN "completed" ELSE "active"

C16_Witness ==
    /\ lastOp.name = "update_goal_progress"
    /\ UpdateHits # {}
    /\ PreGoals[First(UpdateHits)].current_amount > 0
    /\ Goals[First(UpdateHits)].current_amount > PreGoals[First(UpdateHits)].target_amount
    /\ Goals[First(UpdateHits)].status = "completed"

\* C17: update_goal_progress with an id that matches no goal, or only
\* completed or cancelled goals, returns None and leaves every stored goal
\* unchanged.
C17_UpdateOnlyActive ==
    (lastOp.name = "update_goal_progress" /\ UpdateHits = {}) =>
        /\ lastResult.val = None
        /\ goals_file = pre.goals

C17_Witness ==
    /\ lastOp.name = "update_goal_progress"
    /\ UpdateHits = {}
    /\ \E k \in 1..Len(PreGoals) :
          PreGoals[k].id = lastOp.index /\ PreGoals[k].status = "completed"
    /\ lastOp.amount[1] > 0

GoalOperations ==
    {"add_goal", "update_goal_progress", "cancel_goal", "delete_goal",
     "get_total_locked_amount", "get_available_balance_after_goals"}

\* C18: no goal operation changes the stored balance or the expense ledger.
C18_GoalsLeaveBalanceAndLedger ==
    lastOp.name \in GoalOperations =>
        /\ balance_file = pre.bal
        /\ expenses_file = pre.exp

C18_Witness ==
    /\ lastOp.name = "update_goal_progress"
    /\ lastResult.val # None
    /\ lastOp.amount[1] > 0
    /\ Balance > 0
    /\ Len(Ledger) = 1

\* C19: a goal's status changes only from active to completed (with
\* current_amount >= target_amount) or from active to cancelled; completed and
\* cancelled are terminal.
C19_StatusTransitions ==
    lastOp.name \in {"add_goal", "update_goal_progress", "cancel_goal"} =>
        \A k \in 1..Len(PreGoals) :
            Goals[k].status # PreGoals[k].status =>
                /\ PreGoals[k].status = "active"
                /\ Goals[k].status \in {"completed", "cancelled"}
                /\ Goals[k].status = "completed" =>
                        Goals[k].current_amount >= Goals[k].target_amount

\* C20: cancel_goal returns true and sets the status to cancelled only for an
\* active goal; with no goal of that id, or a goal already completed or
\* cancelled, it returns false and changes nothing.
C20_CancelOnlyActive ==
    lastOp.name = "cancel_goal" =>
        LET hits == {k \in 1..Len(PreGoals) : PreGoals[k].id = lastOp.index}
        IN  IF hits # {} /\ PreGoals[First(hits)].status = "active"
            THEN /\ lastResult.val = Some(TRUE)
                 /\ Goals[First(hits)].status = "cancelled"
            ELSE /\ lastResult.val = Some(FALSE)
                 /\ goals_file = pre.goals

\* C21: goal ids are unique and never reused: no two stored goals share an
\* id, and the id add_goal assigns is greater than the id of every goal
\* stored before the call.
C21_GoalIdsUnique ==
    /\ \A j, k \in 1..Len(Goals) : j # k => Goals[j].id # Goals[k].id
    /\ lastOp.name = "add_goal" =>
          \A k \in 1..Len(PreGoals) : lastResult.val[1].id > PreGoals[k].id

\* C22: the current_amount of a stored goal never gets smaller: a call that
\* keeps the list's positions (update_goal_progress, cancel_goal) leaves every
\* goal's current_amount at least what it was, and add_goal starts it at 0.
C22_ProgressOnlyIncreases ==
    /\ lastOp.name \in {"update_goal_progress", "cancel_goal"} =>
          \A k \in 1..Len(PreGoals) : Goals[k].current_amount >= PreGoals[k].current_amount
    /\ lastOp.name = "add_goal" => Goals[Len(Goals)].current_amount = 0

\* What one goal locks: the rest of its target, if it is active and locking.
LockedBy(goal) ==
    IF goal.status = "active" /\ goal.lock_amount
    THEN (IF goal.target_amount > goal.current_amount
          THEN goal.target_amount - goal.current_amount ELSE 0)
    ELSE 0

RECURSIVE TotalLockedUpTo(_)
TotalLockedUpTo(n) ==
    IF n = 0 THEN 0 ELSE TotalLockedUpTo(n - 1) + LockedBy(Goals[n])

\* C23: get_total_locked_amount returns the sum of max(0, target_amount -
\* current_amount) over exactly the active goals with lock_amount true, and
\* get_available_balance_after_goals(balance) returns max(0, balance - that
\* sum), which is never negative.
C23_LockedAndAvailable ==
    /\ lastOp.name = "get_total_locked_amount" =>
          lastResult.val = Some(TotalLockedUpTo(Len(Goals)))
    /\ lastOp.name = "get_available_balance_after_goals" =>
          /\ lastResult.val[1] >= 0
          /\ lastResult.val[1] >= lastOp.amount[1] - TotalLockedUpTo(Len(Goals))
          /\ lastResult.val[1] \in {0, lastOp.amount[1] - TotalLockedUpTo(Len(Goals))}

C23_Witness ==
    /\ lastOp.name = "get_total_locked_amount"
    /\ lastResult.val[1] > 0
    /\ \E k \in 1..Len(Goals) : /\ Goals[k].status = "cancelled"
                                /\ Goals[k].lock_amount
                                /\ Goals[k].target_amount > Goals[k].current_amount

\* The record has a date that parses and an amount.
WellFormed(expense) ==
    /\ Has(expense, "date")
    /\ Has(expense, "amount")
    /\ expense.date # BadDate

ReadOperations ==
    {"get_total_spent", "get_expenses_by_date_range", "get_expense_statistics",
     "calculate_spending_for_budget"}

\* C24: a malformed record in the ledger (a date that does not parse, a
\* missing date or a missing amount) never aborts a read: none of the four
\* reads raises, and get_expenses_by_date_range returns well-formed records
\* only.
C24_MalformedRecordSkipped ==
    lastOp.name \in ReadOperations =>
        /\ lastResult.exc = "none"
        /\ lastOp.name = "get_expenses_by_date_range" =>
              \A k \in 1..Len(lastResult.val[1]) : WellFormed(lastResult.val[1][k])

\* The record falls in the budget's window, both ends included, and in its
\* category.
CountsFor(expense, budget) ==
    /\ budget.start_date <= expense.date
    /\ expense.date <= budget.end_date
    /\ budget.category = "Overall" \/ expense.category = budget.category

RECURSIVE SpendingUpTo(_, _)
SpendingUpTo(n, budget) ==
    IF n = 0 THEN 0
    ELSE SpendingUpTo(n - 1, budget)
         + (IF CountsFor(Ledger[n], budget) THEN Ledger[n].amount ELSE 0)

\* C25: calculate_spending_for_budget(budget) returns the sum of the amounts
\* of exactly the records of the ledger as it now is whose date lies in
\* [start_date, end_date], both ends included, and whose category is the
\* budget's, or of all records in the window for the category "Overall".
C25_SpendingOfBudget ==
    lastOp.name = "calculate_spending_for_budget" =>
        /\ lastResult.exc = "none"
        /\ lastResult.val = Some(SpendingUpTo(Len(Ledger), Budgets[lastOp.index]))

C25_Witness ==
    /\ lastOp.name = "calculate_spending_for_budget"
    /\ Budgets[lastOp.index].category = "Rent"
    /\ lastResult.val = Some(MaxAmount)
    /\ Len(Ledger) = 2
    /\ \E k \in 1..2 : /\ Ledger[k].date = Budgets[lastOp.index].end_date
                       /\ Ledger[k].category = "Rent"
                       /\ Ledger[k].amount = MaxAmount
    /\ \E k \in 1..2 : Ledger[k].category = "Groceries"

BudgetOperations ==
    {"add_budget", "get_active_budgets", "calculate_spending_for_budget",
     "get_budget_status", "check_budget_alerts", "update_budget", "delete_budget",
     "renew_budget", "get_budget_summary"}

\* C26: no budget operation changes the expense ledger or the stored balance.
C26_BudgetsLeaveBalanceAndLedger ==
    lastOp.name \in BudgetOperations =>
        /\ balance_file = pre.bal
        /\ expenses_file = pre.exp

C26_Witness ==
    /\ lastOp.name = "delete_budget"
    /\ lastResult.val = Some(TRUE)
    /\ Len(Ledger) > 0
    /\ Balance < initial_balance
    /\ Len(Budgets) < Len(PreBudgets)

\* C27: get_active_budgets run on a day later than an active budget's end
\* date stores the status expired for it and does not return it, an active
\* budget whose end date is today or later is returned and stays active, and
\* no call that keeps the budgets' positions makes an expired budget active.
C27_ExpiredStaysExpired ==
    /\ lastOp.name = "get_active_budgets" =>
          \A k \in 1..Len(PreBudgets) :
              LET returned == \E j \in 1..Len(lastResult.val[1]) :
                                  lastResult.val[1][j] = PreBudgets[k]
              IN  PreBudgets[k].status = "active" =>
                      IF PreBudgets[k].end_date < today
                      THEN Budgets[k].status = "expired" /\ ~returned
                      ELSE Budgets[k].status = "active" /\ returned
    /\ (lastOp.name \in BudgetOperations /\ Len(Budgets) = Len(PreBudgets)) =>
          \A k \in 1..Len(PreBudgets) :
              PreBudgets[k].status = "expired" => Budgets[k].status = "expired"

\* C28: delete_expense credits the record's amount whether or not the record
\* was added with deduction: once add_expense without deduction has returned,
\* delete_expense of the last index succeeds, removes the record and leaves
\* the balance exactly the amount above the balance before the add.
C28_DeleteCreditsUndeducted ==
    (lastOp.name = "add_expense" /\ ~lastOp.deduct /\ lastResult.exc = "none") =>
        LET r == delete_expense(balance_file, expenses_file, Len(Ledger) - 1, today)
        IN  /\ Balance = PreBalance
            /\ r.val = Some(TRUE)
            /\ get_balance(r.bal) = PreBalance + lastOp.amount[1]
            /\ load_expenses(r.exp) = PreLedger

C28_Witness ==
    /\ lastOp.name = "add_expense"
    /\ ~lastOp.deduct
    /\ lastResult.exc = "none"
    /\ lastOp.amount[1] > 0
    /\ Len(PreLedger) = 1
    /\ PreBalance > 0

\* C29: under any interleaving of the load and save steps of concurrent
\* add_to_balance and subtract_from_balance calls with positive amounts, from
\* a non-negative balance, every value written to the store is non-negative,
\* and so is every value a call has loaded or returns.
C29_RaceNeverStoresNegative ==
    /\ Balance >= 0
    /\ \A p \in Procs : /\ procs[p].current_balance >= 0
                        /\ procs[p].val # None => procs[p].val[1] >= 0

C29_Witness ==
    /\ procs[1].pc = "done"
    /\ procs[1].op = "subtract_from_balance"
    /\ procs[1].exc = "none"
    /\ procs[1].raced
    /\ procs[2].pc = "done"
    /\ procs[2].op = "add_to_balance"
    /\ procs[2].exc = "none"
    /\ Balance = 0

\* C30: every completed goal has current_amount >= target_amount and every
\* active goal has current_amount < target_amount.
C30_StatusMatchesProgress ==
    \A k \in 1..Len(Goals) :
        /\ Goals[k].status = "completed" => Goals[k].current_amount >= Goals[k].target_amount
        /\ Goals[k].status = "active" => Goals[k].current_amount < Goals[k].target_amount

C30_Witness ==
    /\ lastOp.name = "update_goal_progress"
    /\ lastOp.amount[1] > 0
    /\ \E k \in 1..Len(Goals) : /\ Goals[k].status = "completed"
                                /\ Goals[k].current_amount > Goals[k].target_amount
    /\ \E k \in 1..Len(Goals) : /\ Goals[k].status = "active"
                                /\ Goals[k].current_amount > 0

====
